---- MODULE Spec2Model ----
(***************************************************************************)
(* Session and request layer of the Discord MCP server                     *)
(* (class DiscordMcpServer, src/unnamed/part_001).                         *)
(*                                                                         *)
(* The program runs on one JavaScript thread.  A macrotask (an inbound     *)
(* tool request, a gateway event, a timer, the completion of a platform    *)
(* call) runs to its first suspension; every continuation of an await on   *)
(* an already settled promise is a microtask, kept in the FIFO `jobs`, and *)
(* all microtasks run before the next macrotask.                           *)
(***************************************************************************)
EXTENDS Integers, Sequences, FiniteSets, TLC

MaxReq == 2
MaxLogins == 2
MaxWindow == 3

Channels == {"general", "x"}
GuildChannels == {"general"}
ConfigProjectName == "mcp-servers"
DelayNote == "\n\n*(Note: This message was delayed due to connection issues)*"
\* names a CallTool request can carry besides send_message; the switch has a case for
\* the first two, "frobnicate" stands for a name no version of the server knows
OtherOps == {"read_recent_messages", "add_reaction", "remove_reaction", "delete_message",
             "frobnicate"}
Signals == {"SIGINT", "SIGTERM"}
CheckMark == "white_check_mark"
RedCircle == "red_circle"

VARIABLES
    ready,            \* this.ready
    loggingIn,        \* this.loggingIn
    loginPromise,     \* this.loginPromise: 0 is null, else the attempt it refers to
    pendingMessages,  \* this.pendingMessages
    readyListener,    \* the client.once('ready') handler of setupDiscordEvents is still registered
    onReadyL,         \* attempts whose onReady listener is registered, in registration order
    onErrorL,         \* attempts whose onError listener is registered, in registration order
    att,              \* the async bodies assigned to loginPromise, by creation order
    nAtt,             \* number of client.login() calls issued so far
    gw,               \* gateway of the platform client: "idle", "connecting", "connected"
    drains,           \* invocations of flushPendingMessages that took a snapshot
    req,              \* callers: 0 is the background call of run(), 1..MaxReq are CallTool requests
    jobs,             \* microtask queue
    sent,             \* messages the platform accepted (channel.send resolved), in order
    burst,            \* history: ensureConnected calls started back to back from the idle session
    calls,            \* history: platform fetch / react calls issued by requests
    proc,             \* the process: running or exited, and what was closed before the exit
    rd                \* one read_recent_messages invocation past getChannelByName

vars == <<ready, loggingIn, loginPromise, pendingMessages, readyListener, onReadyL,
          onErrorL, att, nAtt, gw, drains, req, jobs, sent, burst, calls, proc, rd>>

Attempts == 1..MaxLogins
Callers == 0..MaxReq
NoBurst == [calls |-> 0, logins |-> 0]
Job(k, id, res) == [k |-> k, id |-> id, res |-> res]

\* SessionState of the specification, read off the two flags.
SessionState == IF ready THEN "Ready" ELSE IF loggingIn THEN "Connecting" ELSE "Disconnected"

InFlightPhases == {"login", "wait", "cont"}
InFlight == {a \in Attempts : att[a].ph \in InFlightPhases}

RECURSIVE SeqMinus(_, _)
SeqMinus(s, S) ==
    IF s = <<>> THEN <<>>
    ELSE IF Head(s) \in S THEN SeqMinus(Tail(s), S)
    ELSE <<Head(s)>> \o SeqMinus(Tail(s), S)

Range(s) == {s[i] : i \in 1..Len(s)}

\* `[${projectName}] ${content}` with projectName = project_name || CONFIG.projectName
MessageContent(project_name, content) ==
    LET projectName == IF project_name # "" THEN project_name ELSE ConfigProjectName
    IN  IF projectName # "" THEN <<"[", projectName, "] ", content>> ELSE <<content>>

\* The entry send_message pushes for caller r; the object keeps its identity in the queue.
PendingMessage(r) ==
    [id |-> r, channel_name |-> req[r].ch, content |-> MessageContent("", "hi")]

DelayedTextPlain(content) == content

\* `${msg.content}\n\n*(Note: ...)*`
DelayedText(content) == content \o <<DelayNote>>

GetChannelByNameUnguarded(rdy, name) ==
    IF name \in GuildChannels THEN "ok" ELSE "NotFound"

\* getChannelByName: the outcome for session flag rdy and channel name
GetChannelByName(rdy, name) ==
    IF ~rdy THEN "NotReady"
    ELSE IF name \in GuildChannels THEN "ok"
    ELSE "NotFound"

EcBranchIgnoresReady(rdy, lg, lp) ==
    IF lg THEN (IF lp # 0 THEN "join" ELSE "skip") ELSE "start"

EcBranchNoJoin(rdy, lg, lp) ==
    IF rdy THEN "ready" ELSE "start"

\* ensureConnected, lines 380-390: which branch a call takes
EcBranch(rdy, lg, lp) ==
    IF rdy THEN "ready"
    ELSE IF lg THEN (IF lp # 0 THEN "join" ELSE "skip")
    ELSE "start"

EnqueueDropped(q, m) == q

\* this.pendingMessages.push(...) in the catch of send_message
Enqueue(q, m) == Append(q, m)

SendResponseRethrow(why) == IF why = "none" THEN "sent" ELSE why

\* what send_message answers: line 316 when nothing failed, lines 327-332 from the catch
SendResponse(why) == IF why = "none" THEN "sent" ELSE "queued"

RequeueFront(q, m) == <<m>> \o q

RequeueDropped(q, m) == q

\* this.pendingMessages.push(msg) in the catch of flushPendingMessages
Requeue(q, m) == Append(q, m)

DrainPickReversed(snap, k) == snap[Len(snap) + 1 - k]

\* the k-th message visited by `for (const msg of messages)`
DrainPick(snap, k) == snap[k]

AfterOnReady(registered) == TRUE

\* client.once('ready', ...): whether the handler is still registered after it has run
AfterOnceReady(registered) == FALSE

\* new McpError(ErrorCode.<code>, message); the message is kept as its template parts
McpError(code, message) == [code |-> code, message |-> message]

\* an Error that is not an McpError: the rejection of client.login() or of the login
\* wait (error event, 'Login timeout (15s)'), or of a platform fetch / react call
PlainError(origin) == [code |-> "Error", message |-> <<origin>>]

NoError == [code |-> "none", message |-> <<>>]

\* the error the CallTool handler throws to the protocol layer for each outcome
Thrown(outcome, op, name) ==
    CASE outcome = "ConnectFailure" -> PlainError("login")
      [] outcome = "PlatformError" -> PlainError("platform")
      [] outcome = "MethodNotFound" -> McpError("MethodNotFound", <<"Unknown tool: ", op>>)
      [] outcome = "InvalidParams" -> McpError("InvalidParams", <<"Invalid arguments: ", "Required">>)
      [] outcome = "NotReady" -> McpError("InternalError", <<"Discord client is not ready.">>)
      [] outcome = "NotFound" -> McpError("InvalidParams", <<"Channel #", name, " not found.">>)

\* switch (request.params.name): the case a name selects
Route(op) ==
    IF op \in {"read_recent_messages", "send_message", "add_reaction"} THEN op ELSE "default"

DispatchSkipsFailure(op, valid, res) ==
    IF Route(op) = "default" THEN "MethodNotFound"
    ELSE IF ~valid THEN "InvalidParams"
    ELSE "resolve"

DispatchNoValidation(op, valid, res) ==
    IF res # "ok" THEN "ConnectFailure"
    ELSE IF Route(op) = "default" THEN "MethodNotFound"
    ELSE "resolve"

\* CallTool handler of a request other than send_message, once the ensureConnected()
\* of lines 278-280 has settled with res: the failure is rethrown, else the switch
\* runs and the selected case parses the arguments before anything else
Dispatch(op, valid, res) ==
    IF res # "ok" THEN "ConnectFailure"
    ELSE IF Route(op) = "default" THEN "MethodNotFound"
    ELSE IF ~valid THEN "InvalidParams"
    ELSE "resolve"

\* the process 'SIGINT' / 'SIGTERM' listeners, in registration order: the module-level
\* ones of lines 83-91 exit at once, the constructor's (line 161) shuts down in order
SignalListeners(sig) == IF sig = "SIGINT" THEN <<"exit", "shutdown">> ELSE <<"exit">>

\* the synchronous part of one listener
Listen(l, p) ==
    IF l = "exit" THEN [p EXCEPT !.state = "exited"]
    ELSE [p EXCEPT !.state = "closing"]

\* process.emit(sig): the listeners run in order; process.exit() ends the process
\* before the next listener is called
RECURSIVE RunListeners(_, _)
RunListeners(ls, p) ==
    IF ls = <<>> \/ p.state = "exited" THEN p
    ELSE RunListeners(Tail(ls), Listen(Head(ls), p))

NoRead == [pc |-> "none", limit |-> 0, unread_only |-> FALSE, reaction_filter |-> "",
           history |-> <<>>, fetchLimit |-> 0, window |-> <<>>, text |-> <<>>]

\* the state after construction, apart from the read invocation under examination
Boot ==
    /\ ready = FALSE
    /\ loggingIn = FALSE
    /\ loginPromise = 0
    /\ pendingMessages = <<>>
    /\ readyListener = TRUE
    /\ onReadyL = <<>>
    /\ onErrorL = <<>>
    /\ att = [a \in Attempts |-> [ph |-> "unused", waiters |-> <<>>]]
    /\ nAtt = 0
    /\ gw = "idle"
    /\ drains = <<>>
    /\ req = [r \in Callers |-> [op |-> "none", valid |-> TRUE, ch |-> "-",
                                 pc |-> "new", resp |-> "none", st0 |-> "none",
                                 err |-> NoError]]
    /\ jobs = <<>>
    /\ sent = <<>>
    /\ burst = NoBurst
    /\ calls = {}
    /\ proc = [state |-> "running", sessionClosed |-> FALSE, transportClosed |-> FALSE]

Init == Boot /\ rd = NoRead

(***************************************************************************)
(* ensureConnected(), called by caller r; rq is req with r's own fields    *)
(* set.  The call runs synchronously up to its first await: it returns at  *)
(* once (the caller's await resumes in a microtask), or awaits the shared  *)
(* loginPromise, or creates the attempt, whose body runs synchronously up  *)
(* to `await this.client.login(CONFIG.token)`.                             *)
(***************************************************************************)
EnsureConnected(r, rq) ==
    LET b == EcBranch(ready, loggingIn, loginPromise)
        idle == ~ready /\ ~loggingIn /\ loginPromise = 0 /\ InFlight = {}
        started == IF b = "start" THEN 1 ELSE 0
    IN  /\ burst' = IF burst.calls > 0
                       THEN [calls |-> burst.calls + 1, logins |-> burst.logins + started]
                     ELSE IF idle THEN [calls |-> 1, logins |-> started]
                     ELSE burst
        /\ \/ /\ b \in {"ready", "skip"}
              /\ jobs' = Append(jobs, Job("connDone", r, "ok"))
              /\ req' = [rq EXCEPT ![r].pc = "micro"]
              /\ UNCHANGED <<loggingIn, loginPromise, att, nAtt, gw>>
           \/ /\ b = "join"
              /\ att' = [att EXCEPT ![loginPromise].waiters = Append(@, r)]
              /\ req' = [rq EXCEPT ![r].pc = "awaitConn"]
              /\ UNCHANGED <<loggingIn, loginPromise, nAtt, gw, jobs>>
           \/ /\ b = "start"
              /\ nAtt < MaxLogins
              /\ loggingIn' = TRUE
              /\ loginPromise' = nAtt + 1
              /\ nAtt' = nAtt + 1
              /\ att' = [att EXCEPT ![nAtt + 1] = [ph |-> "login", waiters |-> <<r>>]]
              /\ gw' = IF gw = "idle" THEN "connecting" ELSE gw
              /\ req' = [rq EXCEPT ![r].pc = "awaitConn"]
              /\ UNCHANGED jobs

\* run(): the delayed background call `this.ensureConnected().catch(...)`
Background ==
    /\ proc.state = "running"
    /\ jobs = <<>>
    /\ req[0].pc = "new"
    /\ EnsureConnected(0, [req EXCEPT ![0].op = "background", ![0].st0 = SessionState])
    /\ UNCHANGED <<ready, pendingMessages, readyListener, onReadyL, onErrorL, drains, sent>>
    /\ UNCHANGED <<calls, proc, rd>>

\* request.params.arguments: well-formed with a channel name, or lacking a required
\* field (the malformed ones only for the names whose case parses them)
RequestArgs(op) ==
    IF op = "frobnicate" THEN {[valid |-> TRUE, ch |-> "general"]}
    ELSE {[valid |-> TRUE, ch |-> c] : c \in Channels}
         \cup (IF Route(op) = "default" THEN {} ELSE {[valid |-> FALSE, ch |-> "-"]})

\* CallTool handler, first run: a request other than send_message awaits ensureConnected()
StartRequest(r) ==
    /\ proc.state = "running"
    /\ jobs = <<>>
    /\ r >= 1
    /\ req[r].pc = "new"
    /\ r = 1 \/ req[r - 1].pc # "new"
    /\ \E op \in OtherOps : \E args \in RequestArgs(op) :
          EnsureConnected(r, [req EXCEPT ![r].op = op, ![r].valid = args.valid,
                                         ![r].ch = args.ch, ![r].st0 = SessionState])
    /\ UNCHANGED <<ready, pendingMessages, readyListener, onReadyL, onErrorL, drains, sent>>
    /\ UNCHANGED <<calls, proc, rd>>

StartSendParsesInTry(r) ==
    /\ proc.state = "running"
    /\ jobs = <<>>
    /\ r >= 1
    /\ req[r].pc = "new"
    /\ r = 1 \/ req[r - 1].pc # "new"
    /\ \E valid \in BOOLEAN, ch \in Channels :
          LET rq == [req EXCEPT ![r].op = "send_message", ![r].valid = valid, ![r].ch = ch,
                                ![r].st0 = SessionState]
          IN  IF valid
              THEN EnsureConnected(r, rq) /\ UNCHANGED pendingMessages
              ELSE /\ req' = [rq EXCEPT ![r].pc = "done", ![r].resp = "queued", ![r].ch = "-"]
                   /\ pendingMessages' =
                         Enqueue(pendingMessages, [id |-> r, channel_name |-> ch,
                                                   content |-> MessageContent("", "hi")])
                   /\ UNCHANGED <<loggingIn, loginPromise, att, nAtt, gw, jobs, burst>>
    /\ UNCHANGED <<ready, readyListener, onReadyL, onErrorL, drains, sent>>
    /\ UNCHANGED <<calls, proc, rd>>

\* CallTool handler, first run, case 'send_message': parse, then ensureConnected() in the try
StartSend(r) ==
    /\ proc.state = "running"
    /\ jobs = <<>>
    /\ r >= 1
    /\ req[r].pc = "new"
    /\ r = 1 \/ req[r - 1].pc # "new"
    /\ \E valid \in BOOLEAN, ch \in Channels :
          LET rq == [req EXCEPT ![r].op = "send_message", ![r].valid = valid, ![r].ch = ch,
                                ![r].st0 = SessionState]
          IN  IF valid
              THEN EnsureConnected(r, rq)
              ELSE /\ req' = [rq EXCEPT ![r].pc = "done", ![r].resp = "InvalidParams",
                                        ![r].err = Thrown("InvalidParams", "send_message", ch),
                                        ![r].ch = "-"]
                   /\ UNCHANGED <<loggingIn, loginPromise, att, nAtt, gw, jobs, burst>>
    /\ UNCHANGED <<ready, pendingMessages, readyListener, onReadyL, onErrorL, drains, sent>>
    /\ UNCHANGED <<calls, proc, rd>>

(***************************************************************************)
(* Gateway events and the login timer.                                     *)
(***************************************************************************)
Unclean(drs) == [d \in DOMAIN drs |-> [drs[d] EXCEPT !.clean = FALSE]]

\* the promise listeners settle: only a pending inner promise changes
SettleInner(at, S) ==
    [a \in Attempts |-> IF a \in S /\ at[a].ph = "wait" THEN [at[a] EXCEPT !.ph = "cont"] ELSE at[a]]

InnerJobsBlocked(l, res) == <<>>

\* the executors' resolve / reject: the attempt bodies awaiting them resume in microtasks
RECURSIVE InnerJobs(_, _)
InnerJobs(l, res) ==
    IF l = <<>> THEN <<>>
    ELSE (IF att[Head(l)].ph = "wait" THEN <<Job("innerRet", Head(l), res)>> ELSE <<>>)
         \o InnerJobs(Tail(l), res)

\* `await this.client.login(CONFIG.token)` settles
LoginReturn(a, ok) ==
    /\ proc.state = "running"
    /\ jobs = <<>>
    /\ att[a].ph = "login"
    /\ att' = [att EXCEPT ![a].ph = "cont"]
    /\ jobs' = <<Job("loginRet", a, IF ok THEN "ok" ELSE "err")>>
    /\ gw' = IF ~ok /\ gw = "connecting" /\ InFlight = {a} THEN "idle" ELSE gw
    /\ burst' = NoBurst
    /\ UNCHANGED <<ready, loggingIn, loginPromise, pendingMessages, readyListener, onReadyL,
                   onErrorL, nAtt, drains, req, sent>>
    /\ UNCHANGED <<calls, proc, rd>>

\* the client emits 'ready': the handler of setupDiscordEvents (with the synchronous
\* part of flushPendingMessages), then every registered onReady, in registration order
ReadyEvent ==
    /\ proc.state = "running"
    /\ jobs = <<>>
    /\ gw = "connecting"
    /\ gw' = "connected"
    /\ burst' = NoBurst
    /\ readyListener' = IF readyListener THEN AfterOnceReady(readyListener) ELSE FALSE
    /\ ready' = IF readyListener THEN TRUE ELSE ready
    /\ loggingIn' = IF readyListener THEN FALSE ELSE loggingIn
    /\ LET flush == readyListener /\ pendingMessages # <<>>
           d == Len(drains) + 1
           flushJobs == IF flush
                        THEN <<Job("drainChan", d,
                                   GetChannelByName(TRUE, DrainPick(pendingMessages, 1).channel_name))>>
                        ELSE <<>>
       IN  /\ drains' = IF flush
                         THEN Append(Unclean(drains),
                                     [snap |-> pendingMessages, k |-> 1, st |-> "micro",
                                      failed |-> <<>>, clean |-> TRUE])
                         ELSE drains
           /\ pendingMessages' = IF flush THEN <<>> ELSE pendingMessages
           /\ jobs' = flushJobs \o InnerJobs(onReadyL, "ok")
    /\ att' = SettleInner(att, Range(onReadyL))
    /\ onReadyL' = <<>>
    /\ onErrorL' = SeqMinus(onErrorL, Range(onReadyL))
    /\ UNCHANGED <<loginPromise, nAtt, req, sent>>
    /\ UNCHANGED <<calls, proc, rd>>

\* the client emits 'error': the handler of setupDiscordEvents, then every registered onError
ErrorEvent ==
    /\ proc.state = "running"
    /\ jobs = <<>>
    /\ gw # "idle"
    /\ burst' = NoBurst
    /\ loggingIn' = FALSE
    /\ jobs' = InnerJobs(onErrorL, "err")
    /\ att' = SettleInner(att, Range(onErrorL))
    /\ onErrorL' = <<>>
    /\ onReadyL' = SeqMinus(onReadyL, Range(onErrorL))
    /\ UNCHANGED <<ready, loginPromise, pendingMessages, readyListener, nAtt, gw, drains,
                   req, sent>>
    /\ UNCHANGED <<calls, proc, rd>>

DisconnectEventKeepsReady ==
    /\ proc.state = "running"
    /\ jobs = <<>>
    /\ gw = "connected"
    /\ gw' = "idle"
    /\ burst' = NoBurst
    /\ UNCHANGED <<ready, loggingIn, loginPromise, pendingMessages, readyListener, onReadyL,
                   onErrorL, att, nAtt, drains, req, jobs, sent>>
    /\ UNCHANGED <<calls, proc, rd>>

\* the client emits 'shardDisconnect': the established gateway connection closed
DisconnectEvent ==
    /\ proc.state = "running"
    /\ jobs = <<>>
    /\ gw = "connected"
    /\ gw' = "idle"
    /\ ready' = FALSE
    /\ burst' = NoBurst
    /\ UNCHANGED <<loggingIn, loginPromise, pendingMessages, readyListener, onReadyL, onErrorL,
                   att, nAtt, drains, req, jobs, sent>>
    /\ UNCHANGED <<calls, proc, rd>>

\* the client emits 'shardReconnecting': the handler only writes a log line
ReconnectingEvent ==
    /\ proc.state = "running"
    /\ jobs = <<>>
    /\ gw # "idle"
    /\ UNCHANGED vars

\* the 15 s timer of attempt a fires: reject(new Error('Login timeout (15s)'))
Timeout(a) ==
    /\ proc.state = "running"
    /\ jobs = <<>>
    /\ att[a].ph = "wait"
    /\ att' = [att EXCEPT ![a].ph = "cont"]
    /\ jobs' = <<Job("innerRet", a, "err")>>
    /\ burst' = NoBurst
    /\ UNCHANGED <<ready, loggingIn, loginPromise, pendingMessages, readyListener, onReadyL,
                   onErrorL, nAtt, gw, drains, req, sent>>
    /\ UNCHANGED <<calls, proc, rd>>

(***************************************************************************)
(* Microtasks.                                                             *)
(***************************************************************************)
HeadIs(k) == jobs # <<>> /\ Head(jobs).k = k

ResumeJobsSwallowed(w, res) ==
    [i \in 1..Len(w) |-> Job("ecResume", w[i], "ok")]

RECURSIVE ResumeJobs(_, _)
ResumeJobs(w, res) ==
    IF w = <<>> THEN <<>> ELSE <<Job("ecResume", Head(w), res)>> \o ResumeJobs(Tail(w), res)

FinishKeepsFlag(a, res) ==
    /\ UNCHANGED loggingIn
    /\ loginPromise' = 0
    /\ att' = [att EXCEPT ![a] = [ph |-> "settled", waiters |-> <<>>]]
    /\ jobs' = Tail(jobs) \o ResumeJobs(att[a].waiters, res)

FinishWithoutFinally(a, res) ==
    /\ UNCHANGED <<loggingIn, loginPromise>>
    /\ att' = [att EXCEPT ![a] = [ph |-> "settled", waiters |-> <<>>]]
    /\ jobs' = Tail(jobs) \o ResumeJobs(att[a].waiters, res)

\* the attempt's body ends: finally { loggingIn = false; loginPromise = null }, then the
\* promise settles and the callers awaiting it are resumed in the order they awaited
Finish(a, res) ==
    /\ loggingIn' = FALSE
    /\ loginPromise' = 0
    /\ att' = [att EXCEPT ![a] = [ph |-> "settled", waiters |-> <<>>]]
    /\ jobs' = Tail(jobs) \o ResumeJobs(att[a].waiters, res)

\* the attempt's body after `await this.client.login(...)`: lines 394-417
JobLoginRet ==
    /\ proc.state = "running"
    /\ HeadIs("loginRet")
    /\ LET a == Head(jobs).id
           res == Head(jobs).res
       IN  IF res = "ok" /\ ~ready
           THEN /\ att' = [att EXCEPT ![a].ph = "wait"]
                /\ onReadyL' = Append(onReadyL, a)
                /\ onErrorL' = Append(onErrorL, a)
                /\ jobs' = Tail(jobs)
                /\ UNCHANGED <<loggingIn, loginPromise>>
           ELSE /\ Finish(a, res)
                /\ UNCHANGED <<onReadyL, onErrorL>>
    /\ UNCHANGED <<ready, pendingMessages, readyListener, nAtt, gw, drains, req, sent, burst>>
    /\ UNCHANGED <<calls, proc, rd>>

\* the attempt's body after the inner promise (ready / error / timeout) settles
JobInnerRet ==
    /\ proc.state = "running"
    /\ HeadIs("innerRet")
    /\ Finish(Head(jobs).id, Head(jobs).res)
    /\ UNCHANGED <<ready, pendingMessages, readyListener, onReadyL, onErrorL, nAtt, gw,
                   drains, req, sent, burst>>
    /\ UNCHANGED <<calls, proc, rd>>

\* ensureConnected after `await this.loginPromise`: it returns or throws to its caller
JobEcResume ==
    /\ proc.state = "running"
    /\ HeadIs("ecResume")
    /\ jobs' = Append(Tail(jobs), Job("connDone", Head(jobs).id, Head(jobs).res))
    /\ req' = [req EXCEPT ![Head(jobs).id].pc = "micro"]
    /\ UNCHANGED <<ready, loggingIn, loginPromise, pendingMessages, readyListener, onReadyL,
                   onErrorL, att, nAtt, gw, drains, sent, burst>>
    /\ UNCHANGED <<calls, proc, rd>>

\* catch of send_message: queue the message and answer with the queue notice
SendCatch(r, why) ==
    /\ pendingMessages' = Enqueue(pendingMessages, PendingMessage(r))
    /\ req' = [req EXCEPT ![r].pc = "done", ![r].resp = SendResponse(why), ![r].ch = "-"]
    /\ drains' = Unclean(drains)

\* the handler of request r throws: the request is answered with the error
Reject(r, outcome) ==
    [req EXCEPT ![r].pc = "done", ![r].resp = outcome,
                ![r].err = Thrown(outcome, req[r].op, req[r].ch), ![r].ch = "-"]

\* the caller after `await this.ensureConnected()`
JobConnDone ==
    /\ proc.state = "running"
    /\ HeadIs("connDone")
    /\ LET r == Head(jobs).id
           res == Head(jobs).res
           chan == Job("chanDone", r, GetChannelByName(ready, req[r].ch))
           how == Dispatch(req[r].op, req[r].valid, res)
       IN  CASE req[r].op = "background" ->
                 /\ req' = [req EXCEPT ![r].pc = "done",
                                       ![r].resp = IF res = "ok" THEN "connected" ELSE "swallowed"]
                 /\ jobs' = Tail(jobs)
                 /\ UNCHANGED <<pendingMessages, drains>>
             [] req[r].op = "send_message" /\ res = "ok" ->
                 /\ jobs' = Append(Tail(jobs), chan)
                 /\ UNCHANGED <<pendingMessages, drains, req>>
             [] req[r].op = "send_message" /\ res # "ok" ->
                 /\ SendCatch(r, "connect")
                 /\ jobs' = Tail(jobs)
             [] req[r].op \in OtherOps /\ how # "resolve" ->
                 /\ req' = Reject(r, how)
                 /\ jobs' = Tail(jobs)
                 /\ UNCHANGED <<pendingMessages, drains>>
             [] req[r].op \in OtherOps /\ how = "resolve" ->
                 /\ jobs' = Append(Tail(jobs), chan)
                 /\ UNCHANGED <<pendingMessages, drains, req>>
    /\ UNCHANGED <<ready, loggingIn, loginPromise, readyListener, onReadyL, onErrorL, att,
                   nAtt, gw, sent, burst>>
    /\ UNCHANGED <<calls, proc, rd>>

\* the caller after `await this.getChannelByName(channel_name)`
JobChanDone ==
    /\ proc.state = "running"
    /\ HeadIs("chanDone")
    /\ jobs' = Tail(jobs)
    /\ LET r == Head(jobs).id
           res == Head(jobs).res
       IN  CASE req[r].op = "send_message" /\ res = "ok" ->
                 /\ req' = [req EXCEPT ![r].pc = "io_send"]
                 /\ UNCHANGED <<pendingMessages, drains, calls>>
             [] req[r].op = "send_message" /\ res # "ok" ->
                 /\ SendCatch(r, res)
                 /\ UNCHANGED calls
             [] req[r].op \in OtherOps /\ res = "ok" ->
                 /\ req' = [req EXCEPT ![r].pc = "io_fetch"]
                 /\ calls' = calls \cup {[id |-> r, kind |-> "fetch"]}
                 /\ UNCHANGED <<pendingMessages, drains>>
             [] req[r].op \in OtherOps /\ res # "ok" ->
                 /\ req' = Reject(r, res)
                 /\ UNCHANGED <<pendingMessages, drains, calls>>
    /\ UNCHANGED <<ready, loggingIn, loginPromise, readyListener, onReadyL, onErrorL, att,
                   nAtt, gw, sent, burst>>
    /\ UNCHANGED <<proc, rd>>

(***************************************************************************)
(* flushPendingMessages: the loop over the snapshot.                       *)
(***************************************************************************)
\* the loop moves on from the k-th message: the next getChannelByName call, or the end
DrainAdvance(d, drs, jb) ==
    LET k2 == drs[d].k + 1
    IN  IF k2 <= Len(drs[d].snap)
        THEN /\ drains' = [drs EXCEPT ![d].k = k2, ![d].st = "micro"]
             /\ jobs' = Append(jb, Job("drainChan", d,
                                GetChannelByName(ready, DrainPick(drs[d].snap, k2).channel_name)))
        ELSE /\ drains' = [drs EXCEPT ![d].k = k2, ![d].st = "done"]
             /\ jobs' = jb

DrainCatchAborts(d, jb) ==
    LET msg == DrainPick(drains[d].snap, drains[d].k)
    IN  /\ pendingMessages' = Requeue(pendingMessages, msg)
        /\ drains' = [e \in DOMAIN drains |->
                         IF e = d THEN [drains[e] EXCEPT !.failed = Append(@, msg.id), !.st = "done"]
                         ELSE [drains[e] EXCEPT !.clean = FALSE]]
        /\ jobs' = jb

\* catch of the loop: push the message back, then go on with the next one
DrainCatch(d, jb) ==
    LET msg == DrainPick(drains[d].snap, drains[d].k)
        drs == [e \in DOMAIN drains |->
                   IF e = d THEN [drains[e] EXCEPT !.failed = Append(@, msg.id)]
                   ELSE [drains[e] EXCEPT !.clean = FALSE]]
    IN  /\ pendingMessages' = Requeue(pendingMessages, msg)
        /\ DrainAdvance(d, drs, jb)

\* the loop after `await this.getChannelByName(msg.channel_name)`
JobDrainChan ==
    /\ proc.state = "running"
    /\ HeadIs("drainChan")
    /\ LET d == Head(jobs).id
       IN  IF Head(jobs).res = "ok"
           THEN /\ drains' = [drains EXCEPT ![d].st = "sending"]
                /\ jobs' = Tail(jobs)
                /\ UNCHANGED pendingMessages
           ELSE DrainCatch(d, Tail(jobs))
    /\ UNCHANGED <<ready, loggingIn, loginPromise, readyListener, onReadyL, onErrorL, att,
                   nAtt, gw, req, sent, burst>>
    /\ UNCHANGED <<calls, proc, rd>>

\* `await channel.send(...)` of the loop settles (each drain follows a 'ready' event,
\* each 'ready' event a login call, so drains are numbered like the attempts)
DrainSendDone(d, ok) ==
    /\ proc.state = "running"
    /\ jobs = <<>>
    /\ d \in DOMAIN drains
    /\ drains[d].st = "sending"
    /\ LET msg == DrainPick(drains[d].snap, drains[d].k)
       IN  IF ok
           THEN /\ sent' = Append(sent, [id |-> msg.id, ch |-> msg.channel_name,
                                         text |-> DelayedText(msg.content), drain |-> d])
                /\ DrainAdvance(d, drains, jobs)
                /\ UNCHANGED pendingMessages
           ELSE /\ DrainCatch(d, jobs)
                /\ UNCHANGED sent
    /\ UNCHANGED <<ready, loggingIn, loginPromise, readyListener, onReadyL, onErrorL, att,
                   nAtt, gw, req, burst>>
    /\ UNCHANGED <<calls, proc, rd>>

(***************************************************************************)
(* Platform calls of the requests settle.                                  *)
(***************************************************************************)
\* `await channel.send(messageContent)` of send_message settles
SendDone(r, ok) ==
    /\ proc.state = "running"
    /\ jobs = <<>>
    /\ req[r].pc = "io_send"
    /\ IF ok
       THEN /\ sent' = Append(sent, [id |-> r, ch |-> req[r].ch,
                                     text |-> MessageContent("", "hi"), drain |-> 0])
            /\ req' = [req EXCEPT ![r].pc = "done", ![r].resp = SendResponse("none"), ![r].ch = "-"]
            /\ UNCHANGED <<pendingMessages, drains>>
       ELSE /\ SendCatch(r, "send")
            /\ UNCHANGED sent
    /\ UNCHANGED <<ready, loggingIn, loginPromise, readyListener, onReadyL, onErrorL, att,
                   nAtt, gw, jobs, burst>>
    /\ UNCHANGED <<calls, proc, rd>>

FetchDoneQueues(r, ok) ==
    /\ proc.state = "running"
    /\ jobs = <<>>
    /\ req[r].pc = "io_fetch"
    /\ IF ~ok
       THEN /\ req' = Reject(r, "PlatformError")
            /\ pendingMessages' = Enqueue(pendingMessages, PendingMessage(r))
            /\ UNCHANGED calls
       ELSE IF req[r].op = "add_reaction"
       THEN /\ req' = [req EXCEPT ![r].pc = "io_react"]
            /\ calls' = calls \cup {[id |-> r, kind |-> "react"]}
            /\ UNCHANGED pendingMessages
       ELSE /\ req' = [req EXCEPT ![r].pc = "done", ![r].resp = "ok", ![r].ch = "-"]
            /\ UNCHANGED <<calls, pendingMessages>>
    /\ UNCHANGED <<ready, loggingIn, loginPromise, readyListener, onReadyL,
                   onErrorL, att, nAtt, gw, drains, jobs, sent, burst>>
    /\ UNCHANGED <<proc, rd>>

\* `await channel.messages.fetch(...)` settles: add_reaction goes on to message.react,
\* read_recent_messages filters and renders what was fetched and returns the text
FetchDone(r, ok) ==
    /\ proc.state = "running"
    /\ jobs = <<>>
    /\ req[r].pc = "io_fetch"
    /\ IF ~ok
       THEN req' = Reject(r, "PlatformError") /\ UNCHANGED calls
       ELSE IF req[r].op = "add_reaction"
       THEN /\ req' = [req EXCEPT ![r].pc = "io_react"]
            /\ calls' = calls \cup {[id |-> r, kind |-> "react"]}
       ELSE /\ req' = [req EXCEPT ![r].pc = "done", ![r].resp = "ok", ![r].ch = "-"]
            /\ UNCHANGED calls
    /\ UNCHANGED <<ready, loggingIn, loginPromise, pendingMessages, readyListener, onReadyL,
                   onErrorL, att, nAtt, gw, drains, jobs, sent, burst>>
    /\ UNCHANGED <<proc, rd>>

\* `await message.react(...)` of add_reaction settles
ReactDone(r, ok) ==
    /\ proc.state = "running"
    /\ jobs = <<>>
    /\ req[r].pc = "io_react"
    /\ req' = IF ok THEN [req EXCEPT ![r].pc = "done", ![r].resp = "ok", ![r].ch = "-"]
              ELSE Reject(r, "PlatformError")
    /\ UNCHANGED <<ready, loggingIn, loginPromise, pendingMessages, readyListener, onReadyL,
                   onErrorL, att, nAtt, gw, drains, jobs, sent, burst>>
    /\ UNCHANGED <<calls, proc, rd>>

(***************************************************************************)
(* Process signals.  process.exit() runs in the first listener, so nothing  *)
(* of the program runs afterwards: every action is guarded by the process   *)
(* still running, and the continuation of the constructor's listener        *)
(* (client.destroy(), server.close(), exit) has no action because no        *)
(* signal ever lets that listener start.                                    *)
(***************************************************************************)
Signal(sig) ==
    /\ proc.state = "running"
    /\ proc' = RunListeners(SignalListeners(sig), proc)
    /\ UNCHANGED <<ready, loggingIn, loginPromise, pendingMessages, readyListener, onReadyL,
                   onErrorL, att, nAtt, gw, drains, req, jobs, sent, burst, calls, rd>>

Next ==
    \/ Background
    \/ \E r \in Callers : StartSend(r)
    \/ \E a \in Attempts, ok \in BOOLEAN : LoginReturn(a, ok)
    \/ ReadyEvent
    \/ ErrorEvent
    \/ DisconnectEvent
    \/ ReconnectingEvent
    \/ \E a \in Attempts : Timeout(a)
    \/ JobLoginRet
    \/ JobInnerRet
    \/ JobEcResume
    \/ JobConnDone
    \/ JobChanDone
    \/ JobDrainChan
    \/ \E d \in Attempts, ok \in BOOLEAN : DrainSendDone(d, ok)
    \/ \E r \in Callers, ok \in BOOLEAN : SendDone(r, ok)

\* The server under send_message requests and the background connection attempt.
Spec == Init /\ [][Next]_vars

ToolNext ==
    \/ Next
    \/ \E r \in Callers : StartRequest(r)
    \/ \E r \in Callers, ok \in BOOLEAN : FetchDone(r, ok)
    \/ \E r \in Callers, ok \in BOOLEAN : ReactDone(r, ok)

\* The server under every kind of request.
ToolSpec == Init /\ [][ToolNext]_vars

(***************************************************************************)
(* read_recent_messages past getChannelByName: fetch, filter, trim, render. *)
(* A message is its id and its reactions cache, one entry per emoji;       *)
(* ids grow with time and the platform returns the newest message first.   *)
(***************************************************************************)
Min(a, b) == IF a <= b THEN a ELSE b
Max(a, b) == IF a >= b THEN a ELSE b

Limits == {1, 2, 5, 10, 40, 60}
ReactionFilters == {"", RedCircle}
ReactionCaches ==
    {c \cup o : c \in {{}, {[name |-> CheckMark, me |-> TRUE]}, {[name |-> CheckMark, me |-> FALSE]}},
                o \in {{}, {[name |-> RedCircle, me |-> FALSE]}}}
Histories ==
    UNION {{[i \in 1..n |-> [id |-> n + 1 - i, reactions |-> h[i]]] :
               h \in [1..n -> ReactionCaches]} : n \in 0..MaxWindow}

\* channels holding more messages than a request asks for, all with the same reactions
LongLengths == {12, 60, 101}
LongHistories ==
    {[i \in 1..n |-> [id |-> n + 1 - i, reactions |-> c]] :
        n \in LongLengths, c \in ReactionCaches}

\* (unread_only || reaction_filter) ? Math.min(limit * 3, 100) : Math.min(limit, 50)
FetchLimitUncapped(limit, unread_only, reaction_filter) ==
    IF unread_only \/ reaction_filter # "" THEN limit * 3 ELSE limit

FetchLimit(limit, unread_only, reaction_filter) ==
    IF unread_only \/ reaction_filter # "" THEN Min(limit * 3, 100) ELSE Min(limit, 50)

\* channel.messages.fetch({ limit }): the platform's most recent messages, newest first
Fetch(history, n) == SubSeq(history, 1, Min(n, Len(history)))

\* m.reactions.cache.some(r => r.emoji.name === name)
HasReaction(m, name) == \E r \in m.reactions : r.name = name

\* m.reactions.cache.find(r => r.emoji.name === '\u2705' && r.me)
OwnCheck(m) == \E r \in m.reactions : r.name = CheckMark /\ r.me

\* if (reaction_filter) filtered = filtered.filter(...)
KeepReaction(ms, reaction_filter) ==
    IF reaction_filter # "" THEN SelectSeq(ms, LAMBDA m : HasReaction(m, reaction_filter))
    ELSE ms

KeepUnreadOff(ms, unread_only) == ms

\* if (unread_only) filtered = filtered.filter(m => !own check mark)
KeepUnread(ms, unread_only) ==
    IF unread_only THEN SelectSeq(ms, LAMBDA m : ~OwnCheck(m)) ELSE ms

\* filtered.slice(0, limit)
Slice(ms, limit) ==
    SubSeq(ms, 1, IF limit < 0 THEN Max(Len(ms) + limit, 0) ELSE Min(limit, Len(ms)))

\* `ID:${m.id} ${isRead} [${time}] ${author}: ${m.content}`
FormatLineMarksRead(m) ==
    <<"ID:", m.id, " ", "[READ]",
      " [", <<"createdAt", m.id>>, "] ", <<"author", m.id>>, ": ", <<"content", m.id>>>>

FormatLine(m) ==
    <<"ID:", m.id, " ", IF OwnCheck(m) THEN "[READ]" ELSE "[NEW]",
      " [", <<"createdAt", m.id>>, "] ", <<"author", m.id>>, ": ", <<"content", m.id>>>>

ReverseOff(s) == s

\* .reverse()
Reverse(s) == [i \in 1..Len(s) |-> s[Len(s) + 1 - i]]

NoMessagesFound == <<"No messages found.">>

\* the text returned: the lines, to be joined by newlines, or the sentinel
ReadRecent(window, limit, unread_only, reaction_filter) ==
    LET filtered == Slice(KeepUnread(KeepReaction(window, reaction_filter), unread_only), limit)
        formatted == Reverse([i \in 1..Len(filtered) |-> FormatLine(filtered[i])])
    IN  IF formatted = <<>> THEN NoMessagesFound ELSE formatted

\* `await channel.messages.fetch({ limit: fetchLimit })` resolves
ReadFetch ==
    /\ proc.state = "running"
    /\ rd.pc = "fetch"
    /\ LET n == FetchLimit(rd.limit, rd.unread_only, rd.reaction_filter)
       IN  rd' = [rd EXCEPT !.pc = "fetched", !.fetchLimit = n, !.window = Fetch(rd.history, n)]
    /\ UNCHANGED <<ready, loggingIn, loginPromise, pendingMessages, readyListener, onReadyL,
                   onErrorL, att, nAtt, gw, drains, req, jobs, sent, burst, calls, proc>>

\* the handler filters, trims and renders the fetched messages and returns the text
ReadRender ==
    /\ proc.state = "running"
    /\ rd.pc = "fetched"
    /\ rd' = [rd EXCEPT !.pc = "done",
                        !.text = ReadRecent(rd.window, rd.limit, rd.unread_only,
                                            rd.reaction_filter)]
    /\ UNCHANGED <<ready, loggingIn, loginPromise, pendingMessages, readyListener, onReadyL,
                   onErrorL, att, nAtt, gw, drains, req, jobs, sent, burst, calls, proc>>

\* a well-formed read_recent_messages call whose channel was resolved, over any
\* channel history
ReadInit ==
    /\ Boot
    /\ \E limit \in Limits, unread_only \in BOOLEAN, reaction_filter \in ReactionFilters,
          history \in Histories \cup LongHistories :
          rd = [NoRead EXCEPT !.pc = "fetch", !.limit = limit, !.unread_only = unread_only,
                              !.reaction_filter = reaction_filter, !.history = history]

ReadNext == ReadFetch \/ ReadRender

\* The read path of read_recent_messages as a function of its arguments and the channel.
ReadSpec == ReadInit /\ [][ReadNext]_vars

DispatchNext ==
    \/ Background
    \/ \E r \in Callers : StartRequest(r)
    \/ \E a \in Attempts, ok \in BOOLEAN : LoginReturn(a, ok)
    \/ ReadyEvent
    \/ ErrorEvent
    \/ DisconnectEvent
    \/ ReconnectingEvent
    \/ \E a \in Attempts : Timeout(a)
    \/ JobLoginRet
    \/ JobInnerRet
    \/ JobEcResume
    \/ JobConnDone
    \/ JobChanDone
    \/ \E r \in Callers, ok \in BOOLEAN : FetchDone(r, ok)
    \/ \E r \in Callers, ok \in BOOLEAN : ReactDone(r, ok)

\* The server under requests other than send_message and the background attempt.
DispatchSpec == Init /\ [][DispatchNext]_vars

LifeNext ==
    \/ Next
    \/ \E sig \in Signals : Signal(sig)

\* The server of Spec in a process that can be sent an interrupt or terminate signal.
LifecycleSpec == Init /\ [][LifeNext]_vars

(***************************************************************************)
(* Properties.                                                             *)
(***************************************************************************)
Requests == 1..MaxReq
IsSend(r) == req[r].op = "send_message" /\ req[r].valid
LiveTransmission(r) ==
    [id |-> r, ch |-> req[r].ch, text |-> PendingMessage(r).content, drain |-> 0]
Ids(s) == [i \in 1..Len(s) |-> s[i].id]
CountIn(s, id) == Cardinality({i \in 1..Len(s) : s[i].id = id})
FromDrain(e) == e.drain # 0
\* the step in which the gateway signals ready for a login
ReadySignal == gw = "connecting" /\ gw' = "connected"

RECURSIVE IsSubseq(_, _)
IsSubseq(s, t) ==
    IF s = <<>> THEN TRUE
    ELSE IF t = <<>> THEN FALSE
    ELSE IF Head(s) = Head(t) THEN IsSubseq(Tail(s), Tail(t))
    ELSE IsSubseq(s, Tail(t))

\* C1: N >= 1 ensureConnected() calls started back to back from the Disconnected
\* session with no attempt in flight issue exactly one platform login call.
C1_SingleFlight == burst.calls >= 1 => burst.logins = 1

C1_Witness == burst.calls = MaxReq + 1 /\ burst.logins = 1

\* C2 (as claimed): in every reachable state at most one login attempt is in flight,
\* so no platform login call is issued while an earlier attempt has not settled.
C2_AtMostOneAttemptInFlight == Cardinality(InFlight) <= 1

\* the step in which attempt a resolves successfully
Resolves(a) ==
    /\ jobs # <<>> /\ Head(jobs).id = a /\ Head(jobs).k \in {"loginRet", "innerRet"}
    /\ Head(jobs).res = "ok"
    /\ att[a].ph = "cont" /\ att'[a].ph = "settled"

\* C3 (as claimed): whenever a login attempt resolves successfully the session is
\* Ready, for the first login and for every login after a disconnected event.
C3_ResolvedMeansReady ==
    [][\A a \in Attempts : Resolves(a) => ready']_vars

\* the step in which request r, a well-formed send_message, is answered
SendAnswered(r) ==
    /\ req'[r].op = "send_message" /\ req'[r].valid
    /\ req[r].pc # "done" /\ req'[r].pc = "done"

\* C4 (as claimed): a well-formed send_message issued while the session is
\* Disconnected is always answered with the queue notice.
C4_DisconnectedSendAlwaysQueued ==
    \A r \in Requests :
        (IsSend(r) /\ req[r].st0 = "Disconnected" /\ req[r].pc = "done") => req[r].resp = "queued"

\* C4 (amended): a well-formed send_message issued while the session is Disconnected
\* never returns an error: it is answered either with the queue notice, exactly one
\* PendingMessage for it being appended, or, when the login it caused succeeded and
\* the platform accepted the message, with the sent confirmation, nothing appended.
C4_DisconnectedSendNeverFails ==
    [][\A r \in Requests :
        (SendAnswered(r) /\ req'[r].st0 = "Disconnected") =>
            \/ /\ req'[r].resp = "queued"
               /\ pendingMessages' = Append(pendingMessages, PendingMessage(r))
            \/ /\ req'[r].resp = "sent"
               /\ pendingMessages' = pendingMessages
               /\ sent' = Append(sent, LiveTransmission(r))]_vars

C4_Witness ==
    \E r, q \in Requests :
        /\ IsSend(r) /\ req[r].st0 = "Disconnected" /\ req[r].resp = "queued"
        /\ IsSend(q) /\ req[q].st0 = "Disconnected" /\ req[q].resp = "sent"

\* the step of request r that is about to run finds ensureConnected or the channel
\* resolution failed
StepFailed(r) ==
    /\ jobs # <<>> /\ Head(jobs).id = r /\ Head(jobs).k \in {"connDone", "chanDone"}
    /\ Head(jobs).res # "ok"

\* C5: a well-formed send_message, in any session state, is answered with the queue
\* notice and queued exactly once when a step fails (ensureConnected, channel
\* resolution with NotReady or NotFound, the platform send), and is transmitted once
\* with the queue unchanged when no step fails.
C5_SendRecoversEveryFailure ==
    [][\A r \in Requests :
        SendAnswered(r) =>
            IF StepFailed(r) \/ sent' = sent
            THEN /\ req'[r].resp = "queued"
                 /\ pendingMessages' = Append(pendingMessages, PendingMessage(r))
                 /\ sent' = sent
            ELSE /\ req'[r].resp = "sent"
                 /\ pendingMessages' = pendingMessages
                 /\ sent' = Append(sent, LiveTransmission(r))]_vars

C5_Witness ==
    \E r, q \in Requests :
        /\ IsSend(r) /\ req[r].pc = "done" /\ req[r].st0 = "Ready" /\ req[r].resp = "queued"
        /\ IsSend(q) /\ req[q].pc = "done" /\ req[q].st0 = "Connecting" /\ req[q].resp = "sent"
        /\ CountIn(pendingMessages, r) = 1 /\ CountIn(sent, q) = 1

\* C6 (as claimed): a queued message whose channel exists is transmitted after a
\* subsequent successful reconnect, the first login or a later one; so whenever the
\* gateway signals ready for a login, every such message is handed to the drain,
\* which alone transmits queued messages.
C6_ReconnectDrainsQueue ==
    [][ReadySignal =>
          \A i \in 1..Len(pendingMessages) :
              pendingMessages[i].channel_name \in GuildChannels =>
                  /\ Len(drains') = Len(drains) + 1
                  /\ drains'[Len(drains')].snap = pendingMessages]_vars

Requeued == UNION {Range(drains[d].failed) : d \in DOMAIN drains}

\* C7 (as claimed): a message put back in the queue because its replay failed is
\* attempted again by a drain at the next successful reconnect.
C7_RequeuedIsRetried ==
    [][ReadySignal =>
          \A i \in 1..Len(pendingMessages) :
              pendingMessages[i].id \in Requeued =>
                  /\ Len(drains') = Len(drains) + 1
                  /\ pendingMessages[i] \in Range(drains'[Len(drains')].snap)]_vars

DeliveredBy(d) == SelectSeq(sent, LAMBDA e : e.drain = d)

\* C8: within one drain the messages delivered successfully are transmitted in their
\* enqueue order: the transmitted sequence is a subsequence of the queue snapshot.
C8_DrainKeepsOrder ==
    \A d \in DOMAIN drains : IsSubseq(Ids(DeliveredBy(d)), Ids(drains[d].snap))

C8_Witness ==
    \E d \in DOMAIN drains : Len(DeliveredBy(d)) >= 2 /\ drains[d].st = "done"

FailedOf(d) == SelectSeq(drains[d].snap, LAMBDA m : m.id \in Range(drains[d].failed))

\* C9: when a drain of n messages in which k deliveries failed ends, and no
\* send_message enqueued meanwhile, the queue holds exactly the k failed messages
\* in their original relative order.
C9_DrainLeavesFailed ==
    \A d \in DOMAIN drains :
        (drains[d].st = "done" /\ drains[d].clean) =>
            /\ pendingMessages = FailedOf(d)
            /\ Len(pendingMessages) = Len(drains[d].failed)

C9_Witness ==
    \E d \in DOMAIN drains :
        /\ drains[d].st = "done" /\ drains[d].clean
        /\ Len(drains[d].snap) >= 2 /\ Len(drains[d].failed) >= 2

Awaiting(d) ==
    IF drains[d].st = "done" THEN <<>>
    ELSE SubSeq(drains[d].snap, drains[d].k, Len(drains[d].snap))

RECURSIVE AwaitingCount(_, _)
AwaitingCount(d, id) ==
    IF d = 0 THEN 0 ELSE CountIn(Awaiting(d), id) + AwaitingCount(d - 1, id)

Copies(id) ==
    CountIn(pendingMessages, id) + AwaitingCount(Len(drains), id)
        + CountIn(SelectSeq(sent, FromDrain), id)

\* C10: no PendingMessage is lost or duplicated: every message that was enqueued is
\* in exactly one of the live queue, the part of a running drain's snapshot that still
\* awaits its delivery attempt, and the transmitted messages; nothing else is there.
C10_NoLossNoDuplicate ==
    \A r \in Requests : Copies(r) = IF req[r].resp = "queued" THEN 1 ELSE 0

C10_Witness ==
    \E d \in DOMAIN drains :
        /\ drains[d].st = "sending" /\ ~ready
        /\ \E i \in 1..Len(pendingMessages) : pendingMessages[i].id \notin Range(Ids(drains[d].snap))

(***************************************************************************)
(* The request dispatcher.                                                 *)
(***************************************************************************)
FiveOperations ==
    {"read_recent_messages", "send_message", "add_reaction", "remove_reaction", "delete_message"}

\* the error class the caller sees: the code of an McpError; an Error that is not an
\* McpError carries no code of its own and is reported as an internal error
ErrorClass(e) == IF e.code = "Error" THEN "InternalError" ELSE e.code

Answered(r) == req[r].pc = "done"

\* the step in which the handler of request r resumes after the ensureConnected()
\* pre-check, which has settled with the given results
AfterPrecheck(r, results) ==
    /\ jobs # <<>> /\ Head(jobs).k = "connDone" /\ Head(jobs).id = r
    /\ Head(jobs).res \in results
    /\ req[r].op \in OtherOps

CallsOf(cs, r) == {c \in cs : c.id = r}

\* C11 (as claimed): a request naming an operation the dispatcher does not know is
\* answered with a MethodNotFound error in every session state, whether the login
\* it may cause succeeds, fails or times out.
C11_UnknownIsMethodNotFound ==
    \A r \in Requests :
        (Answered(r) /\ req[r].op = "frobnicate") => ErrorClass(req[r].err) = "MethodNotFound"

\* C12 (as claimed): a request naming one of the five inbound operations is never
\* answered with a MethodNotFound error.
C12_FiveOperationsRouted ==
    \A r \in Requests :
        (Answered(r) /\ req[r].op \in FiveOperations) =>
            ErrorClass(req[r].err) # "MethodNotFound"

\* C13: when the ensureConnected() pre-check of a request other than send_message
\* fails, the request is answered in that step with the login failure, an
\* InternalError-class error; it has issued and issues no platform fetch or react
\* call, and no further login is started for it.
C13_ConnectFailurePropagates ==
    [][\A r \in Requests :
        AfterPrecheck(r, {"err"}) =>
            /\ req'[r].pc = "done"
            /\ req'[r].err = PlainError("login")
            /\ ErrorClass(req'[r].err) = "InternalError"
            /\ CallsOf(calls', r) = {}
            /\ nAtt' = nAtt /\ loggingIn' = loggingIn /\ loginPromise' = loginPromise]_vars

C13_Witness ==
    \E r, q \in Requests :
        /\ req[r].op = "read_recent_messages" /\ req[r].valid /\ req[r].st0 = "Disconnected"
        /\ req[q].op = "frobnicate" /\ req[q].st0 = "Connecting"
        /\ req[r].resp = "ConnectFailure" /\ req[q].resp = "ConnectFailure"
        /\ calls = {}

MissingChannelName(r) == req[r].op = "read_recent_messages" /\ ~req[r].valid

\* C14 (as claimed): a read_recent_messages request lacking channel_name is answered
\* with an InvalidParams error in each session state it can arrive in, also when the
\* session is Disconnected and the login fails.
C14_MissingFieldIsInvalidParams ==
    \A r \in Requests :
        (Answered(r) /\ MissingChannelName(r)) => ErrorClass(req[r].err) = "InvalidParams"

\* C14 (amended): a read_recent_messages request lacking channel_name is answered
\* with an InvalidParams error whenever its ensureConnected() pre-check succeeds
\* (session Ready, Connecting or Disconnected with the login succeeding); when the
\* login fails or times out it is answered with the login failure, its arguments
\* not being examined.
C14_MissingFieldAfterPrecheck ==
    [][\A r \in Requests :
        (AfterPrecheck(r, {"ok", "err"}) /\ MissingChannelName(r)) =>
            /\ req'[r].pc = "done"
            /\ CallsOf(calls', r) = {}
            /\ IF Head(jobs).res = "ok"
               THEN /\ ErrorClass(req'[r].err) = "InvalidParams"
                    /\ req'[r].err.message = <<"Invalid arguments: ", "Required">>
               ELSE req'[r].err = PlainError("login")]_vars

C14_Witness ==
    \E r, q \in Requests :
        /\ Answered(r) /\ MissingChannelName(r) /\ req[r].st0 = "Disconnected"
        /\ Answered(q) /\ MissingChannelName(q) /\ req[q].st0 = "Connecting"
        /\ req[r].resp = "InvalidParams" /\ req[q].resp = "InvalidParams"

\* the step in which request r, issued with the session Ready and naming channel
\* name, is answered
AnsweredFromReady(r, name) ==
    /\ req[r].pc # "done" /\ req'[r].pc = "done"
    /\ req[r].st0 = "Ready" /\ req[r].valid /\ req[r].ch = name

\* C15 (as claimed): a read, add_reaction, remove_reaction or delete_message request
\* naming a channel that exists in no joined guild, issued with the session Ready,
\* is answered with the channel-not-found error naming that channel, and issues no
\* platform fetch or react call.
C15_MissingChannelIsNotFound ==
    [][\A r \in Requests : \A name \in Channels \ GuildChannels :
        (AnsweredFromReady(r, name) /\ req[r].op \in FiveOperations \ {"send_message"}) =>
            /\ req'[r].err.message = <<"Channel #", name, " not found.">>
            /\ CallsOf(calls', r) = {}]_vars

(***************************************************************************)
(* Login timeout, background attempt, shutdown.                            *)
(***************************************************************************)
\* C16 (as claimed): every login attempt settles even if the platform stays silent
\* (no ready signal, no error signal, the login call never completing): whenever an
\* attempt waits for the platform, its timeout can fire and reject it.
C16_SilentPlatformStillSettles ==
    \A a \in Attempts :
        (jobs = <<>> /\ att[a].ph \in {"login", "wait"}) => ENABLED Timeout(a)

\* the step in which the failure of the background attempt is swallowed, the platform
\* not having signalled ready in the meantime
BackgroundSwallowed == ~ready /\ req[0].resp # "swallowed" /\ req'[0].resp = "swallowed"

\* C17 (as claimed): when the failure of the background connection attempt is
\* swallowed, the session is Disconnected with no attempt in flight, so that the
\* next ensureConnected() starts a fresh login.
C17_BackgroundFailureLeavesIdle ==
    [][BackgroundSwallowed =>
          /\ proc'.state = "running"
          /\ SessionState' = "Disconnected"
          /\ loginPromise' = 0
          /\ InFlight' = {}]_vars

\* C18 (as claimed): the process exits on an interrupt or terminate signal only
\* after the platform session and then the transport have been closed.
C18_ExitAfterCloses ==
    proc.state = "exited" => (proc.sessionClosed /\ proc.transportClosed)

\* queue entries i < j with the same channel, in a guild, and the same content, of
\* send_message calls made while the session was not Ready
Twins(i, j) ==
    /\ i < j
    /\ req[pendingMessages[i].id].st0 # "Ready" /\ req[pendingMessages[j].id].st0 # "Ready"
    /\ pendingMessages[i].channel_name = pendingMessages[j].channel_name
    /\ pendingMessages[i].content = pendingMessages[j].content
    /\ pendingMessages[i].channel_name \in GuildChannels

\* C19 (as claimed): two send_message calls with identical channel and content that
\* were queued make two queue entries, and a successful reconnect hands both to a
\* drain, which transmits each once when delivery works: two transmissions.
C19_TwinsBothDelivered ==
    [][\A i, j \in 1..Len(pendingMessages) :
          (ReadySignal /\ Twins(i, j)) =>
              /\ Len(drains') = Len(drains) + 1
              /\ CountIn(drains'[Len(drains')].snap, pendingMessages[i].id) = 1
              /\ CountIn(drains'[Len(drains')].snap, pendingMessages[j].id) = 1]_vars

(***************************************************************************)
(* The read path.                                                          *)
(***************************************************************************)
\* the message of the fetched window a rendered line is about
LineMessages(line) == {k \in 1..Len(rd.window) : rd.window[k].id = line[2]}

\* C20: for every fetched window and every limit, the text read_recent_messages
\* returns with unread_only = true has no line for a message that carries the
\* bot's own check-mark reaction; every line is for a message of the window.
C20_UnreadOnlyHidesOwnCheck ==
    (rd.pc = "done" /\ rd.unread_only /\ rd.text # NoMessagesFound) =>
        \A i \in 1..Len(rd.text) :
            /\ LineMessages(rd.text[i]) # {}
            /\ \A k \in LineMessages(rd.text[i]) :
                  [name |-> CheckMark, me |-> TRUE] \notin rd.window[k].reactions

C20_Witness ==
    /\ rd.pc = "done" /\ rd.unread_only /\ rd.text # NoMessagesFound
    /\ Len(rd.window) >= 3
    /\ [name |-> CheckMark, me |-> TRUE] \in rd.window[1].reactions
    /\ [name |-> CheckMark, me |-> FALSE] \in rd.window[2].reactions
    /\ Len(rd.text) = 2

LineIds(text) == [i \in 1..Len(text) |-> text[i][2]]
MessageIds(ms) == [i \in 1..Len(ms) |-> ms[i].id]
Returned == rd.pc = "done" /\ rd.text # NoMessagesFound

\* C21: the lines read_recent_messages returns are oldest first: read backwards they
\* follow the order in which the platform delivered the surviving messages (newest
\* first), so the message ids, which grow with time, ascend down the text.
C21_OutputOldestFirst ==
    Returned =>
        /\ IsSubseq([i \in 1..Len(rd.text) |-> LineIds(rd.text)[Len(rd.text) + 1 - i]],
                    MessageIds(rd.window))
        /\ \A i, j \in 1..Len(rd.text) : i < j => LineIds(rd.text)[i] < LineIds(rd.text)[j]

C21_Witness ==
    /\ Returned /\ rd.unread_only /\ Len(rd.text) >= 3 /\ Len(rd.window) > Len(rd.text)

NoFilter == ~rd.unread_only /\ rd.reaction_filter = ""

\* C22: with no filter and more than limit messages in the channel, limit between 1
\* and 50, read_recent_messages returns exactly the limit most recent messages,
\* oldest first, each line starting ID:<id> [NEW] when the message does not carry the
\* bot's own check mark.
C22_NoFilterReturnsMostRecent ==
    (rd.pc = "done" /\ NoFilter /\ rd.limit \in 1..50 /\ Len(rd.history) > rd.limit) =>
        /\ Len(rd.text) = rd.limit
        /\ \A i \in 1..rd.limit :
              LET m == rd.history[rd.limit + 1 - i]
              IN  /\ rd.text[i][1] = "ID:" /\ rd.text[i][2] = m.id
                  /\ [name |-> CheckMark, me |-> TRUE] \notin m.reactions => rd.text[i][4] = "[NEW]"

C22_Witness ==
    /\ rd.pc = "done" /\ NoFilter /\ rd.limit = 5 /\ Len(rd.history) = 12
    /\ rd.history[1].reactions = {}
    /\ Len(rd.text) = 5 /\ rd.text[1][2] = 8 /\ rd.text[5][2] = 12

\* C23 (as claimed): read_recent_messages never returns more than 50 messages,
\* whatever the limit and the filters.
C23_AtMostFiftyReturned == Returned => Len(rd.text) <= 50

\* C24 (as claimed): an 'error' event emitted while a login attempt is in flight, be it
\* during the platform login call or during the wait for 'ready', rejects the attempt:
\* its body resumes with the error.
C24_ErrorRejectsAttempt ==
    [][\A a \in Attempts :
          (ErrorEvent /\ att[a].ph \in {"login", "wait"}) =>
              /\ att'[a].ph = "cont"
              /\ \E i \in DOMAIN jobs' : jobs'[i] = Job("innerRet", a, "err")]_vars

Settles(a) == att[a].ph = "cont" /\ att'[a].ph = "settled"
CallsEnsureConnected(r) == req[r].pc = "new" /\ req'[r].pc \in {"micro", "awaitConn"}

\* C25: when a login attempt settles the attempt handle is cleared and the connecting
\* flag is false, the handle never names a settled attempt, and the next
\* ensureConnected() call made while not Ready creates a new attempt with its own
\* platform login call and awaits that one.
C25_SettledAttemptIsForgotten ==
    [][/\ \A a \in Attempts : Settles(a) => (~loggingIn' /\ loginPromise' = 0)
       /\ loginPromise' # 0 => att'[loginPromise'].ph \in InFlightPhases
       /\ \A r \in Callers :
             (/\ CallsEnsureConnected(r)
              /\ \E a \in Attempts : att[a].ph = "settled"
              /\ ~ready /\ loginPromise = 0) =>
                 /\ nAtt' = nAtt + 1
                 /\ loginPromise' = nAtt'
                 /\ att'[nAtt'] = [ph |-> "login", waiters |-> <<r>>]
                 /\ req'[r].pc = "awaitConn"]_vars

C25_Witness ==
    /\ nAtt = 2 /\ att[1].ph = "settled" /\ att[2].ph = "login"
    /\ loginPromise = 2 /\ loggingIn /\ ~ready

\* C26: every caller awaiting an attempt, the joiners included, gets the attempt's
\* outcome: when the attempt settles with a result, each of its waiters is resumed
\* once with that result, and ensureConnected() hands the same result to its caller.
C26_JoinersShareOutcome ==
    [][/\ \A a \in Attempts :
             Settles(a) =>
                \A r \in Range(att[a].waiters) :
                    /\ Job("ecResume", r, Head(jobs).res) \in Range(jobs')
                    /\ \A o \in {"ok", "err"} \ {Head(jobs).res} :
                           Job("ecResume", r, o) \notin Range(jobs')
       /\ HeadIs("ecResume") =>
             /\ Job("connDone", Head(jobs).id, Head(jobs).res) \in Range(jobs')
             /\ \A o \in {"ok", "err"} \ {Head(jobs).res} :
                    Job("connDone", Head(jobs).id, o) \notin Range(jobs')]_vars

C26_Witness ==
    \E a \in Attempts :
        /\ att[a].ph = "settled"
        /\ \E r1, r2 \in Callers :
              /\ r1 # r2
              /\ req[r1].st0 = "Disconnected" /\ req[r2].st0 = "Connecting"
              /\ Job("ecResume", r2, "err") \in Range(jobs)

\* C27: ensureConnected() called while Ready returns at once: no attempt is created,
\* no platform login call is made, and the flags, the attempt handle, the attempts,
\* the listeners and the pending queue are left as they were.
C27_ReadyCallIsNoOp ==
    [][\A r \in Callers :
          (CallsEnsureConnected(r) /\ ready) =>
              /\ UNCHANGED <<ready, loggingIn, loginPromise, pendingMessages, att, nAtt, gw,
                             onReadyL, onErrorL, drains>>
              /\ req'[r].pc = "micro"
              /\ jobs' = Append(jobs, Job("connDone", r, "ok"))]_vars

C27_Witness ==
    \E r \in Callers :
        /\ req[r].st0 = "Ready" /\ req[r].pc = "micro" /\ pendingMessages # <<>>
        /\ Job("connDone", r, "ok") \in Range(jobs)

\* C28: a 'shardDisconnect' event received while Ready leaves the session
\* Disconnected: from then on channel resolution fails with NotReady and an
\* ensureConnected() call would start a new login attempt; the event touches neither
\* the attempts nor the queue.  A 'shardReconnecting' event changes no session state.
C28_DisconnectLeavesDisconnected ==
    [][/\ (DisconnectEvent /\ ready) =>
             /\ SessionState' = "Disconnected"
             /\ \A c \in Channels : GetChannelByName(ready', c) = "NotReady"
             /\ EcBranch(ready', loggingIn', loginPromise') = "start"
             /\ UNCHANGED <<loginPromise, att, nAtt, pendingMessages, drains, req>>
       /\ ReconnectingEvent =>
             UNCHANGED <<ready, loggingIn, loginPromise, att, nAtt, pendingMessages,
                         readyListener, onReadyL, onErrorL, drains, req>>]_vars

C28_Witness ==
    /\ ~ready /\ loggingIn /\ gw = "connecting" /\ ~readyListener
    /\ \E r \in Requests : req[r].st0 = "Ready"
    /\ \E r \in Requests : req[r].st0 = "Disconnected" /\ req[r].pc = "awaitConn"

DrainStep == JobDrainChan \/ \E d \in Attempts, ok \in BOOLEAN : DrainSendDone(d, ok)
NotDrainJobs(jb) == SelectSeq(jb, LAMBDA j : j.k # "drainChan")

\* C29: the drain started by the 'ready' handler is not awaited.  The 'ready' event
\* that starts a drain resolves, in the same turn, every attempt waiting for ready, so
\* the callers resume without any delivery having completed; and no step of a drain,
\* successful or failed, touches an attempt, a caller, the flags or the attempt handle.
C29_DrainIsFireAndForget ==
    [][/\ (ReadySignal /\ Len(drains') > Len(drains)) =>
             \A a \in Attempts :
                 att[a].ph = "wait" =>
                     /\ att'[a].ph = "cont"
                     /\ Job("innerRet", a, "ok") \in Range(jobs')
       /\ DrainStep =>
             /\ UNCHANGED <<ready, loggingIn, loginPromise, att, nAtt, req, onReadyL, onErrorL>>
             /\ NotDrainJobs(jobs') = NotDrainJobs(jobs)]_vars

C29_Witness ==
    /\ req[0].st0 = "Disconnected" /\ req[0].resp = "connected"
    /\ \E d \in DOMAIN drains :
          /\ drains[d].st = "sending" /\ drains[d].k = 1
          /\ DeliveredBy(d) = <<>> /\ drains[d].failed = <<>>

\* C30: a failed delivery does not end the drain: the loop has dealt with k - 1
\* messages of the snapshot, each either delivered or recorded as failed, and it ends
\* only past the last one, so every message of the snapshot gets its attempt.
C30_DrainAttemptsEveryMessage ==
    \A d \in DOMAIN drains :
        /\ Len(DeliveredBy(d)) + Len(drains[d].failed) = drains[d].k - 1
        /\ drains[d].st = "done" =>
              /\ drains[d].k = Len(drains[d].snap) + 1
              /\ \A i \in 1..Len(drains[d].snap) :
                    \/ drains[d].snap[i].id \in Range(drains[d].failed)
                    \/ \E j \in DOMAIN sent :
                          sent[j].drain = d /\ sent[j].id = drains[d].snap[i].id

C30_Witness ==
    \E d \in DOMAIN drains :
        /\ drains[d].st = "done" /\ Len(drains[d].snap) = 2
        /\ drains[d].failed = <<drains[d].snap[1].id>>
        /\ \E j \in DOMAIN sent : sent[j].drain = d /\ sent[j].id = drains[d].snap[2].id

StoredContent == MessageContent("", "hi")

\* C31: a transmission carries the delay notice exactly when the drain made it: a live
\* send transmits the prefixed content as it is, a replay transmits the stored content
\* followed by the notice, and the entries kept in the queue and in the snapshots hold
\* the content without the notice however often their replay has failed.
C31_DelayNoteOnlyOnReplay ==
    /\ \A i \in DOMAIN sent :
          /\ sent[i].drain = 0 => sent[i].text = StoredContent
          /\ sent[i].drain # 0 => sent[i].text = StoredContent \o <<DelayNote>>
          /\ sent[i].drain # 0 <=> sent[i].text[Len(sent[i].text)] = DelayNote
    /\ \A i \in DOMAIN pendingMessages :
          /\ pendingMessages[i].content = StoredContent
          /\ DelayNote \notin Range(pendingMessages[i].content)
    /\ \A d \in DOMAIN drains : \A i \in DOMAIN drains[d].snap :
          DelayNote \notin Range(drains[d].snap[i].content)

C31_Witness ==
    /\ \E i \in DOMAIN sent : sent[i].drain # 0
    /\ \E d \in DOMAIN drains :
          /\ drains[d].st = "done" /\ drains[d].failed # <<>>
          /\ \E i \in DOMAIN pendingMessages : pendingMessages[i].id \in Range(drains[d].failed)

\* C32: getChannelByName called while the session is not Ready fails with NotReady,
\* for a channel of the guild cache as for an unknown one, and the caller gets no
\* channel: neither a request nor the drain goes on to a platform call.
C32_NotReadyResolutionFails ==
    [][/\ (HeadIs("connDone") /\ ~ready') =>
             \A j \in Range(jobs') \ Range(jobs) : j.k = "chanDone" => j.res = "NotReady"
       /\ (~ready' /\ drains' # drains) =>
             \A j \in Range(jobs') \ Range(jobs) : j.k = "drainChan" => j.res = "NotReady"
       /\ (HeadIs("chanDone") /\ Head(jobs).res = "NotReady") =>
             /\ req'[Head(jobs).id].pc = "done"
             /\ sent' = sent /\ calls' = calls
       /\ (HeadIs("drainChan") /\ Head(jobs).res = "NotReady") =>
             /\ drains'[Head(jobs).id].st # "sending"
             /\ Len(drains'[Head(jobs).id].failed) = Len(drains[Head(jobs).id].failed) + 1
             /\ sent' = sent]_vars

C32_Witness ==
    /\ ~ready
    /\ \E r \in Requests :
          /\ req[r].ch = "general"
          /\ Job("chanDone", r, "NotReady") \in Range(jobs)

\* C33: read_recent_messages asks the platform once, for min(limit, 50) messages when
\* no filter is active and for min(limit * 3, 100) when one is: the window it works on
\* is what that one fetch returned, also when fewer than limit messages survive.
C33_OneFetchOfClampedSize ==
    [][LET active == rd.unread_only \/ rd.reaction_filter # ""
           n == IF active
                THEN (IF rd.limit * 3 < 100 THEN rd.limit * 3 ELSE 100)
                ELSE (IF rd.limit < 50 THEN rd.limit ELSE 50)
       IN  /\ rd.pc = "fetch" =>
                 /\ rd'.fetchLimit = n
                 /\ Len(rd'.window) = (IF Len(rd.history) < n THEN Len(rd.history) ELSE n)
                 /\ rd'.window = SubSeq(rd.history, 1, Len(rd'.window))
           /\ rd.pc = "fetched" =>
                 /\ rd'.pc = "done"
                 /\ rd'.window = rd.window /\ rd'.fetchLimit = rd.fetchLimit]_vars

C33_Witness ==
    /\ rd.pc = "done" /\ rd.unread_only /\ rd.limit = 40
    /\ rd.fetchLimit = 100 /\ Len(rd.history) = 101 /\ Len(rd.window) = 100
    /\ rd.text = NoMessagesFound

\* C34: after every step the connecting flag being set implies that the attempt
\* handle is present, so a caller that finds the session Connecting always awaits the
\* attempt the handle names, which is still in flight, instead of returning at once.
C34_ConnectingHasHandle ==
    [][/\ loggingIn' => loginPromise' # 0
       /\ \A r \in Callers :
             (CallsEnsureConnected(r) /\ SessionState = "Connecting") =>
                 /\ loginPromise # 0
                 /\ att[loginPromise].ph \in InFlightPhases
                 /\ req'[r].pc = "awaitConn"
                 /\ r \in Range(att'[loginPromise].waiters)
                 /\ Job("connDone", r, "ok") \notin Range(jobs')]_vars

C34_Witness ==
    /\ loggingIn /\ loginPromise # 0 /\ att[loginPromise].ph = "wait"
    /\ \E r \in Callers :
          /\ req[r].st0 = "Connecting" /\ req[r].pc = "awaitConn"
          /\ r \in Range(att[loginPromise].waiters)

\* C35 (as claimed): per channel, a message queued by an earlier send_message is never
\* transmitted after a message of a later send_message that was sent live.
C35_QueuedNeverAfterLaterLive ==
    \A p, q \in DOMAIN sent :
        ~(/\ p < q
          /\ sent[p].drain = 0 /\ sent[q].drain # 0
          /\ sent[p].ch = sent[q].ch
          /\ sent[q].id < sent[p].id)

AnsweredNow(r) == req[r].pc # "done" /\ req'[r].pc = "done"
Untouched(r) ==
    /\ CallsOf(calls, r) = {}
    /\ \A i \in DOMAIN sent : sent[i].id # r
    /\ \A i \in DOMAIN pendingMessages : pendingMessages[i].id # r
    /\ \A d \in DOMAIN drains : \A i \in DOMAIN drains[d].snap : drains[d].snap[i].id # r

\* C36: a request rejected for invalid arguments has made no fetch, send or react call
\* and is in no queue, and the step that rejects it leaves the pending queue, the
\* transmissions and the platform calls as they were; a send_message with invalid
\* arguments is answered with InvalidParams at once.
C36_InvalidArgumentsTouchNothing ==
    [][\A r \in Requests :
          /\ (AnsweredNow(r) /\ req'[r].resp = "InvalidParams") =>
                /\ pendingMessages' = pendingMessages
                /\ sent' = sent /\ calls' = calls /\ drains' = drains
                /\ Untouched(r)'
          /\ (req[r].pc = "new" /\ req'[r].op = "send_message" /\ ~req'[r].valid) =>
                /\ req'[r].pc = "done" /\ req'[r].resp = "InvalidParams"
                /\ ErrorClass(req'[r].err) = "InvalidParams"
          /\ (req[r].resp = "InvalidParams" /\ Untouched(r)) => Untouched(r)']_vars

C36_Witness ==
    \E r1, r2 \in Requests :
        /\ req[r1].op = "send_message" /\ req[r1].resp = "InvalidParams"
        /\ req[r2].op = "add_reaction" /\ req[r2].resp = "InvalidParams"

\* C37: no step of a read_recent_messages, add_reaction or unknown request changes the
\* pending queue, however the request ends; the queue changes only when a send_message
\* is answered from its catch, when the 'ready' handler starts a drain, or in a step
\* of the drain loop.
C37_OnlySendAndDrainTouchQueue ==
    [][/\ \A r \in Requests :
             (req'[r] # req[r] /\ req'[r].op \in OtherOps) =>
                 pendingMessages' = pendingMessages
       /\ pendingMessages' # pendingMessages =>
             \/ \E r \in Requests :
                   /\ req[r].op = "send_message" /\ AnsweredNow(r)
                   /\ req'[r].resp = "queued"
                   /\ pendingMessages' = Append(pendingMessages, PendingMessage(r))
             \/ ReadySignal /\ Len(drains') = Len(drains) + 1
             \/ DrainStep]_vars

C37_Witness ==
    /\ pendingMessages # <<>>
    /\ \E r \in Requests :
          /\ req[r].op \in {"read_recent_messages", "add_reaction"}
          /\ req[r].resp = "PlatformError"

\* an attempt rejected by its 15 s timer: it has settled, and the onReady listener it
\* registered, which only a 'ready' or an 'error' event removes, is still on the client
TimedOut(a) == att[a].ph = "settled" /\ a \in Range(onReadyL)

\* C38 (as claimed): a 'ready' event arriving after the attempt that waited for it has
\* timed out still makes the session Ready and starts a drain of the pending queue,
\* and it neither resolves nor rejects the settled attempt again.
C38_LateReadyStillConnects ==
    [][(ReadySignal /\ \E a \in Attempts : TimedOut(a)) =>
          /\ ready'
          /\ pendingMessages # <<>> =>
                (Len(drains') = Len(drains) + 1 /\ pendingMessages' = <<>>)
          /\ \A a \in Attempts :
                TimedOut(a) =>
                    /\ att'[a] = att[a]
                    /\ \A j \in Range(jobs') : ~(j.k \in {"innerRet", "loginRet"} /\ j.id = a)]_vars

InProgress == {d \in DOMAIN drains : drains[d].st # "done"}

\* C39: at most one drain of the pending queue is in progress at any time, whatever
\* the sequence of ready, disconnect and login events.
C39_AtMostOneDrain == Cardinality(InProgress) <= 1

C39_Witness ==
    /\ \E d \in InProgress : drains[d].st = "sending" /\ drains[d].failed # <<>>
    /\ pendingMessages # <<>>
    /\ gw = "connected" /\ ~ready /\ nAtt = 2
====
